---------------------------- MODULE Spec2Model ----------------------------
(***************************************************************************)
(* Crime-weighted route planning (Shailu1964/Safe-Route-Generation).       *)
(*                                                                         *)
(* Road graphs are the directed multigraphs osmnx builds                   *)
(* (ox.graph_from_place returns a networkx MultiDiGraph): an edge is       *)
(* <<u, v, key>>, u -> v.  Coordinates are integers, one unit = 0.001      *)
(* degree, counted from a point of the city (0 is not latitude 0.0), so    *)
(* the radii 0.005 and 0.002 are 5 and 2.  Severities are                  *)
(* integers in tenths (0.5 is 5).  Edge lengths are exact decimals         *)
(* <<num, exp>> = num / 10^exp, kept normalised; the rounding of Python's  *)
(* floats is not modelled.                                                 *)
(***************************************************************************)
EXTENDS Integers, Sequences, FiniteSets, TLC

VARIABLES
    base,       \* the graph as it was loaded (never assigned again)
    graph,      \* the graph object handed to adjust_weights_for_crime
    nspots,     \* number of crime spots applied to `graph` so far
    last,       \* the last adjust_weights_for_crime call: its arguments and the graph before it
    routed,     \* the last get_astar_route / calculate_route_distance call on `graph`
    clock,      \* wall clock, seconds since the epoch (time.time(), datetime.now())
    ticks,      \* number of times the clock has advanced
    ncalls,     \* number of get_crime_severity_cached calls made
    CRIME_SEVERITY_CACHE,   \* route_calculations.CRIME_SEVERITY_CACHE: key -> <<cached_time, severity>>
    memo,       \* the lru_cache around get_crime_severity_cached: arguments -> result
    asked,      \* arguments -> clock of the latest get_crime_severity_cached call with them
    call,       \* the last get_crime_severity_cached call and what it returned
    batch,      \* the get_dynamic_crime_spots call in progress: its futures and its main thread
    details,    \* the last get_route_crime_details call: its arguments and what it returned
    program,    \* which module serves the requests: "a1", "rc" or "app"
    heap,       \* graph objects by reference
    G_safe,     \* reference held by the module global G_safe (0: not defined)
    G_optimized,\* reference held by the module global G_optimized (0: not defined)
    crime_spots,\* the crime spots read from the data set: <<lat, lon, severity>>
    req,        \* the request being served and the handler's position in it
    nreq,       \* number of requests received
    generated_routes,   \* a1.generated_routes
    start_point,        \* a1.start_point
    end_point,          \* a1.end_point
    response,   \* the last response sent
    previous,   \* the response before that
    shown,      \* the last page a1.update_map rendered, and the user it was sent to
    latest      \* for each user, the result of the user's most recent a1.generate_routes

adjVars == <<graph, nspots, last, routed>>
cacheVars == <<ticks, ncalls, asked, call, batch, details>>
progVars == <<program, heap, G_safe, G_optimized, crime_spots, req, nreq,
              generated_routes, start_point, end_point, response, previous,
              shown, latest>>
vars == <<base, clock, CRIME_SEVERITY_CACHE, memo, adjVars, cacheVars, progVars>>

---------------------------------------------------------------------------
(* Bounds of the model *)

MaxSpots == 2
MaxApplied == 2
MaxTicks == 2
MaxCalls == 2
MaxRequests == 2

---------------------------------------------------------------------------
(* Program constants *)

crime_radius == 5
OptimizedRadius == 2
CRIME_CACHE_EXPIRY == 300
\* max_severity of the two remove_crime_spots calls of r.py, and of the call
\* in a.find_routes
r_SafeMaxSeverity == 1
r_OptimizedMaxSeverity == 5
a_MaxSeverity == 5
\* ThreadPoolExecutor(max_workers=4) and as_completed(futures, timeout=10)
max_workers == 4
BatchTimeout == 10

---------------------------------------------------------------------------
(* Exact decimal arithmetic for the float `length` attribute *)

Abs(i) == IF i < 0 THEN -i ELSE i

RECURSIVE Pow10(_)
Pow10(k) == IF k = 0 THEN 1 ELSE 10 * Pow10(k - 1)

RECURSIVE DNorm(_, _)
DNorm(n, e) == IF e > 0 /\ n % 10 = 0 THEN DNorm(n \div 10, e - 1) ELSE <<n, e>>

Dec(n) == <<n, 0>>

MaxExp(a, b) == IF a[2] >= b[2] THEN a[2] ELSE b[2]

\* the numerator of a at the scale 10^e, e >= a[2]
Scaled(a, e) == a[1] * Pow10(e - a[2])

DAdd(a, b) == LET e == MaxExp(a, b) IN DNorm(Scaled(a, e) + Scaled(b, e), e)

DLeq(a, b) == LET e == MaxExp(a, b) IN Scaled(a, e) <= Scaled(b, e)

DLt(a, b) == LET e == MaxExp(a, b) IN Scaled(a, e) < Scaled(b, e)

\* a slip of sign: length * (1 - severity)
MulFactorMinus(len, severity) == DNorm(len[1] * (10 - severity), len[2] + 1)

\* edge_data[key]['length'] *= (1 + severity), severity in tenths
MulFactor(len, severity) == DNorm(len[1] * (10 + severity), len[2] + 1)


---------------------------------------------------------------------------
(* The road graph: [nodes, y, x, length], length : edges -> decimal.       *)
(* A crime spot is <<lat, lon, severity>>.                                  *)

Edges(g) == DOMAIN g.length

\* graph.neighbors(node): on a MultiDiGraph, the successors of node
Neighbors(g, node) == {e[2] : e \in {d \in Edges(g) : d[1] = node}}

\* graph.get_edge_data(u, v): the keys of the parallel edges u -> v
GetEdgeData(g, u, v) == {e[3] : e \in {d \in Edges(g) : d[1] = u /\ d[2] = v}}

\* the axis-aligned box test of the comprehension `nearby_nodes`
NearbyNodesClosed(g, lat, lon, radius) ==
    {n \in g.nodes : Abs(g.y[n] - lat) <= radius /\ Abs(g.x[n] - lon) <= radius}

NearbyNodes(g, lat, lon, radius) ==
    {n \in g.nodes : Abs(g.y[n] - lat) < radius /\ Abs(g.x[n] - lon) < radius}

\* how often the three nested loops reach edge e for one crime spot
Visits(g, nearby, e) ==
    Cardinality({node \in nearby :
                    /\ node = e[1]
                    /\ e[2] \in Neighbors(g, node)
                    /\ e[3] \in GetEdgeData(g, node, e[2])})

RECURSIVE MulTimes(_, _, _)
MulTimes(len, severity, k) ==
    IF k = 0 THEN len ELSE MulTimes(MulFactor(len, severity), severity, k - 1)

\* one iteration of the outer loop of adjust_weights_for_crime
AdjustSpot(g, spot, radius) ==
    LET nearby == NearbyNodes(g, spot[1], spot[2], radius)
    IN  [g EXCEPT !.length =
            [e \in Edges(g) |-> MulTimes(g.length[e], spot[3], Visits(g, nearby, e))]]

\* a de-duplicating variant: an edge an earlier spot has already lengthened is
\* skipped by the later spots
RECURSIVE AdjustUntouched(_, _, _, _)
AdjustUntouched(orig, g, crime_locations, radius) ==
    IF crime_locations = <<>> THEN g
    ELSE LET a == AdjustSpot(g, Head(crime_locations), radius)
             kept == [g EXCEPT !.length =
                        [e \in Edges(g) |-> IF g.length[e] = orig.length[e]
                                            THEN a.length[e] ELSE g.length[e]]]
         IN  AdjustUntouched(orig, kept, Tail(crime_locations), radius)

AdjustEachEdgeOnce(g, crime_locations, radius) ==
    AdjustUntouched(g, g, crime_locations, radius)

RECURSIVE adjust_weights_for_crime(_, _, _)
adjust_weights_for_crime(g, crime_locations, radius) ==
    IF crime_locations = <<>> THEN g
    ELSE adjust_weights_for_crime(AdjustSpot(g, Head(crime_locations), radius),
                                  Tail(crime_locations), radius)

\* removal of the nodes near a spot whose severity is max_severity or more
RemoveAtThreshold(g, crime_locations, radius, max_severity) ==
    LET nodes_to_remove ==
            UNION {NearbyNodes(g, crime_locations[i][1], crime_locations[i][2], radius) :
                     i \in {j \in DOMAIN crime_locations : crime_locations[j][3] >= max_severity}}
        keep == g.nodes \ nodes_to_remove
        kept == {e \in Edges(g) : e[1] \in keep /\ e[2] \in keep}
    IN  [nodes |-> keep,
         y |-> [n \in keep |-> g.y[n]],
         x |-> [n \in keep |-> g.x[n]],
         length |-> [e \in kept |-> g.length[e]]]

\* removal of the nodes near a spot whose severity is below max_severity
RemoveBelow(g, crime_locations, radius, max_severity) ==
    LET nodes_to_remove ==
            UNION {NearbyNodes(g, crime_locations[i][1], crime_locations[i][2], radius) :
                     i \in {j \in DOMAIN crime_locations : crime_locations[j][3] < max_severity}}
        keep == g.nodes \ nodes_to_remove
        kept == {e \in Edges(g) : e[1] \in keep /\ e[2] \in keep}
    IN  [nodes |-> keep,
         y |-> [n \in keep |-> g.y[n]],
         x |-> [n \in keep |-> g.x[n]],
         length |-> [e \in kept |-> g.length[e]]]

\* remove_crime_spots: graph.remove_nodes_from drops the nodes and their edges
remove_crime_spots(g, crime_locations, radius, max_severity) ==
    LET nodes_to_remove ==
            UNION {NearbyNodes(g, crime_locations[i][1], crime_locations[i][2], radius) :
                     i \in {j \in DOMAIN crime_locations : crime_locations[j][3] > max_severity}}
        keep == g.nodes \ nodes_to_remove
        kept == {e \in Edges(g) : e[1] \in keep /\ e[2] \in keep}
    IN  [nodes |-> keep,
         y |-> [n \in keep |-> g.y[n]],
         x |-> [n \in keep |-> g.x[n]],
         length |-> [e \in kept |-> g.length[e]]]

---------------------------------------------------------------------------
(* Path finding: haversine, ox.distance.nearest_nodes, nx.astar_path        *)

RECURSIVE Isqrt(_)
Isqrt(n) ==
    IF n < 2 THEN n
    ELSE LET small == 2 * Isqrt(n \div 4)
         IN  IF (small + 1) * (small + 1) > n THEN small ELSE small + 1

\* The squared separation of two points, in tenths of squared grid units.
\* The grid lies at Pune's latitude, where cos(lat)^2 is about 0.9.
Sep2(y1, x1, y2, x2) == 10 * (y1 - y2) * (y1 - y2) + 9 * (x1 - x2) * (x1 - x2)

\* the great-circle distance in decimetres: ten times the number of metres
haversineTooLong(lat1, lon1, lat2, lon2) ==
    DNorm(Isqrt(10 * Sep2(lat1, lon1, lat2, lon2)) * 111, 0)

\* haversine: great-circle distance in KILOMETRES (R = 6371.0), as a decimal
\* with four places.  One grid unit (0.001 degree) is 0.1112 km; for the small
\* separations of the model the arc is the chord.
haversine(lat1, lon1, lat2, lon2) ==
    DNorm(Isqrt(10 * Sep2(lat1, lon1, lat2, lon2)) * 111, 4)

\* the nested function heuristic(u, v) of get_astar_route
Heuristic(g, u, v) == haversine(g.y[u], g.x[u], g.y[v], g.x[v])

\* ox.distance.nearest_nodes(graph, X, Y): the node nearest to (Y, X); argmin
\* returns the first minimum, here the lowest node id.  0 when the graph is empty.
NearestNode(g, X, Y) ==
    IF g.nodes = {} THEN 0
    ELSE CHOOSE n \in g.nodes :
            \A m \in g.nodes :
                \/ Sep2(g.y[n], g.x[n], Y, X) < Sep2(g.y[m], g.x[m], Y, X)
                \/ (Sep2(g.y[n], g.x[n], Y, X) = Sep2(g.y[m], g.x[m], Y, X) /\ n <= m)

\* networkx's weight function on a multigraph: the least `length` of the
\* parallel edges u -> v
MinWeight(g, u, v) ==
    LET keys == GetEdgeData(g, u, v)
        k == CHOOSE a \in keys : \A b \in keys : DLeq(g.length[<<u, v, a>>], g.length[<<u, v, b>>])
    IN  g.length[<<u, v, k>>]

RECURSIVE SortedSeq(_)
SortedSeq(S) ==
    IF S = {} THEN <<>>
    ELSE LET m == CHOOSE a \in S : \A b \in S : a <= b
         IN  <<m>> \o SortedSeq(S \ {m})

Put(f, k, v) == [a \in DOMAIN f \cup {k} |-> IF a = k THEN v ELSE f[a]]

\* the inner loop of nx.astar_path over the successors of the popped node
RECURSIVE Relax(_, _, _, _, _, _, _)
Relax(g, target, cur, nbrs, queue, c, enqueued) ==
    IF nbrs = <<>> THEN [queue |-> queue, c |-> c, enqueued |-> enqueued]
    ELSE LET neighbor == Head(nbrs)
             ncost == DAdd(cur.dist, MinWeight(g, cur.node, neighbor))
             known == neighbor \in DOMAIN enqueued
         IN  IF known /\ DLeq(enqueued[neighbor][1], ncost)
             THEN Relax(g, target, cur, Tail(nbrs), queue, c, enqueued)
             ELSE LET h == IF known THEN enqueued[neighbor][2]
                                    ELSE Heuristic(g, neighbor, target)
                      entry == [f |-> DAdd(ncost, h), c |-> c, node |-> neighbor,
                                dist |-> ncost, parent |-> cur.node]
                  IN  Relax(g, target, cur, Tail(nbrs), queue \cup {entry}, c + 1,
                            Put(enqueued, neighbor, <<ncost, h>>))

\* the path rebuilt from the parents in `explored`; parent 0 is None
RECURSIVE PathTo(_, _)
PathTo(explored, node) ==
    IF node = 0 THEN <<>> ELSE PathTo(explored, explored[node]) \o <<node>>

\* the main loop of nx.astar_path; the heap orders entries by (f, counter)
RECURSIVE AstarLoop(_, _, _, _, _, _)
AstarLoop(g, target, queue, c, enqueued, explored) ==
    IF queue = {} THEN [status |-> "NetworkXNoPath", route |-> <<>>]
    ELSE LET cur == CHOOSE q \in queue :
                        \A r \in queue : DLt(q.f, r.f) \/ (q.f = r.f /\ q.c <= r.c)
             rest == queue \ {cur}
         IN  IF cur.node = target
             THEN [status |-> "ok", route |-> PathTo(explored, cur.parent) \o <<target>>]
             ELSE IF /\ cur.node \in DOMAIN explored
                     /\ (explored[cur.node] = 0 \/ DLt(enqueued[cur.node][1], cur.dist))
             THEN AstarLoop(g, target, rest, c, enqueued, explored)
             ELSE LET r == Relax(g, target, cur, SortedSeq(Neighbors(g, cur.node)),
                                 rest, c, enqueued)
                  IN  AstarLoop(g, target, r.queue, r.c, r.enqueued,
                                Put(explored, cur.node, cur.parent))

\* nx.astar_path(graph, source, target, heuristic, weight='length')
astar_path(g, source, target) ==
    AstarLoop(g, target,
              {[f |-> Dec(0), c |-> 0, node |-> source, dist |-> Dec(0), parent |-> 0]},
              1, <<>>, <<>>)

\* get_astar_route(graph, start, end); start and end are <<lat, lon>>
get_astar_route(g, start, end) ==
    LET start_node == NearestNode(g, start[2], start[1])
        end_node == NearestNode(g, end[2], end[1])
    IN  IF start_node = 0 \/ end_node = 0
        THEN [status |-> "ValueError", route |-> <<>>]
        ELSE astar_path(g, start_node, end_node)

\* calculate_route_distance: the length of the key-0 edge of each hop
RECURSIVE SumKey0(_, _, _)
SumKey0(g, route, i) ==
    IF i >= Len(route) THEN Dec(0)
    ELSE DAdd(g.length[<<route[i], route[i + 1], 0>>], SumKey0(g, route, i + 1))

calculate_route_distance(g, route) ==
    IF \E i \in 1..(Len(route) - 1) : <<route[i], route[i + 1], 0>> \notin Edges(g)
    THEN [status |-> "KeyError", distance |-> Dec(0)]
    ELSE [status |-> "ok", distance |-> SumKey0(g, route, 1)]

---------------------------------------------------------------------------
(* Road networks of the model.  Nodes 1..4 stand for A..D.                  *)

None == [op |-> "none"]

BothWays(u, v, len) == (<<u, v, 0>> :> Dec(len)) @@ (<<v, u, 0>> :> Dec(len))

\* A - B - C - D, every street 100 m and two-way, the nodes 0.010 degree apart
LineGraph ==
    [nodes |-> {1, 2, 3, 4},
     y |-> [n \in {1, 2, 3, 4} |-> 0],
     x |-> [n \in {1, 2, 3, 4} |-> 10 * (n - 1)],
     length |-> BothWays(1, 2, 100) @@ BothWays(2, 3, 100) @@ BothWays(3, 4, 100)]

\* A and B 0.003 degree apart with a second, shorter carriageway A -> B (key 1),
\* a one-way street A -> C, and C 0.012 degree from A
CarriagewayGraph ==
    [nodes |-> {1, 2, 3},
     y |-> [n \in {1, 2, 3} |-> 0],
     x |-> (1 :> 0) @@ (2 :> 3) @@ (3 :> 12),
     length |-> BothWays(1, 2, 100) @@ (<<1, 2, 1>> :> Dec(60)) @@ BothWays(2, 3, 100)
                @@ (<<1, 3, 0>> :> Dec(150))]

\* A - B - C with a longer way round A - D - C
DetourGraph ==
    [nodes |-> {1, 2, 3, 4},
     y |-> (1 :> 0) @@ (2 :> 0) @@ (3 :> 0) @@ (4 :> 10),
     x |-> (1 :> 0) @@ (2 :> 10) @@ (3 :> 20) @@ (4 :> 10),
     length |-> BothWays(1, 2, 100) @@ BothWays(2, 3, 100)
                @@ BothWays(1, 4, 150) @@ BothWays(4, 3, 150)]

\* A -> B -> C -> D, every street one-way: there is no way back from D
OneWayGraph ==
    [nodes |-> {1, 2, 3, 4},
     y |-> [n \in {1, 2, 3, 4} |-> 0],
     x |-> [n \in {1, 2, 3, 4} |-> 10 * (n - 1)],
     length |-> (<<1, 2, 0>> :> Dec(100)) @@ (<<2, 3, 0>> :> Dec(100))
                @@ (<<3, 4, 0>> :> Dec(100))]

\* A -> B -> C and a one-way street A -> C, with a second, shorter carriageway
\* A -> B (key 1).  B lies 0.010 degree and C 0.030 degree from A, and every
\* street is longer than the straight line between its ends (1112 m for
\* 0.010 degree).
ParallelGraph ==
    [nodes |-> {1, 2, 3},
     y |-> [n \in {1, 2, 3} |-> 0],
     x |-> (1 :> 0) @@ (2 :> 10) @@ (3 :> 30),
     length |-> (<<1, 2, 0>> :> Dec(2000)) @@ (<<1, 2, 1>> :> Dec(1200))
                @@ (<<2, 1, 0>> :> Dec(2000)) @@ BothWays(2, 3, 2300)
                @@ (<<1, 3, 0>> :> Dec(3600))]

BaseGraphs == {LineGraph, CarriagewayGraph, DetourGraph, ParallelGraph}

\* crime-spot inputs: positions <<lat, lon>> and severities in [0, 1]
SpotPositions == {<<0, 10>>, <<0, 1>>}
Severities == {0, 2, 5, 10}
SpotChoices == {<<p[1], p[2], s>> : p \in SpotPositions, s \in Severities}

Min(a, b) == IF a <= b THEN a ELSE b

Radii == {crime_radius, OptimizedRadius}

\* geocoded end points <<lat, lon>>
Trips == {<<<<0, 0>>, <<0, 30>>>>}

---------------------------------------------------------------------------
(* The severity cache of route_calculations.py                              *)

EmptyMap == [k \in {} |-> 0]

\* utils.SEVERITY_MAPPING, severities in tenths
SEVERITY_MAPPING ==
    [category \in {"Very Low", "Low", "Moderate", "High", "Very High"} |->
        CASE category = "Very Low" -> 1
          [] category = "Low" -> 2
          [] category = "Moderate" -> 5
          [] category = "High" -> 7
          [] category = "Very High" -> 10]

\* what model.predict can do: raise, or return a category (possibly one the
\* mapping does not know)
ModelOutcomes == {"raise", "unmapped"} \cup DOMAIN SEVERITY_MAPPING

\* utils.predict_crime_severity, given the category model.predict returned:
\* SEVERITY_MAPPING.get(severity_category, 0.1)
predict_crime_severity(severity_category) ==
    IF severity_category \in DOMAIN SEVERITY_MAPPING
    THEN SEVERITY_MAPPING[severity_category]
    ELSE 1

\* time.time() of the module `time`, whatever the name is bound to
TimeTimeModule(t, now) == [raised |-> FALSE, value |-> now]

\* time.time() evaluated where the name `time` is bound to the value t.  In
\* get_crime_severity_cached and update_graphs_with_dynamic_severity `time` is
\* a parameter, so an int hour has no attribute `time`; only a value that is
\* not a number would reach the clock.
TimeTime(t, now) ==
    IF t \in Int THEN [raised |-> TRUE, value |-> 0]
                 ELSE [raised |-> FALSE, value |-> now]

\* datetime.now().hour and .weekday() (the epoch fell on a Thursday, weekday 3)
Hour(now) == (now \div 3600) % 24
Weekday(now) == ((now \div 86400) + 3) % 7

\* get_crime_severity_cached(lat, lon, date, time, day) run at clock `now` on
\* the cache `cache` and the lru_cache table `mem`; `prediction` is what
\* model.predict does if it is called.  The key f"{lat}_{lon}_{date}_{time}_{day}"
\* is the five arguments printed in full and joined by "_", so two calls have
\* the same key exactly when they have the same five arguments.  (maxsize=1024
\* is never reached by the inputs here.)
get_crime_severity_cached(lat, lon, date, time, day, cache, mem, now, prediction) ==
    LET args == <<lat, lon, date, time, day>>
        cache_key == args
        current_time == TimeTime(time, now)
        fresh == /\ cache_key \in DOMAIN cache
                 /\ current_time.value - cache[cache_key][1] < CRIME_CACHE_EXPIRY
        severity == predict_crime_severity(prediction)
    IN  IF args \in DOMAIN mem
        THEN [status |-> "ok", severity |-> mem[args], predicted |-> FALSE,
              cache |-> cache, memo |-> mem]
        ELSE IF current_time.raised
        THEN [status |-> "AttributeError", severity |-> 0, predicted |-> FALSE,
              cache |-> cache, memo |-> mem]
        ELSE IF fresh
        THEN [status |-> "ok", severity |-> cache[cache_key][2], predicted |-> FALSE,
              cache |-> cache, memo |-> Put(mem, args, cache[cache_key][2])]
        ELSE IF prediction = "raise"
        THEN [status |-> "PredictionError", severity |-> 0, predicted |-> TRUE,
              cache |-> cache, memo |-> mem]
        ELSE [status |-> "ok", severity |-> severity, predicted |-> TRUE,
              cache |-> Put(cache, cache_key, <<current_time.value, severity>>),
              memo |-> Put(mem, args, severity)]

\* get_dynamic_crime_spots: every spot is looked up; a lookup that raises is
\* logged and its spot is left out of the result
RECURSIVE ProcessSpots(_, _, _, _, _, _, _, _, _)
ProcessSpots(crime_locations, i, date, time, day, cache, mem, now, predictions) ==
    IF i > Len(crime_locations)
    THEN [spots |-> <<>>, cache |-> cache, memo |-> mem]
    ELSE LET spot == crime_locations[i]
             r == get_crime_severity_cached(spot[1], spot[2], date, time, day,
                                            cache, mem, now, predictions[i])
             rest == ProcessSpots(crime_locations, i + 1, date, time, day,
                                  r.cache, r.memo, now, predictions)
         IN  IF r.status = "ok"
             THEN [rest EXCEPT !.spots = <<<<spot[1], spot[2], r.severity>>>> \o @]
             ELSE rest

get_dynamic_crime_spots(crime_locations, date, time, day, cache, mem, now, predictions) ==
    ProcessSpots(crime_locations, 1, date, time, day, cache, mem, now, predictions)

\* update_graphs_with_dynamic_severity: the first statement of its try block
\* is time.time(); whatever is raised inside the block is logged and the graph
\* passed in is returned as it is
update_graphs_with_dynamic_severity(g, crime_locations, date, time, day, radius, cache, mem, now, predictions) ==
    IF TimeTime(time, now).raised
    THEN [graph |-> g, cache |-> cache, memo |-> mem]
    ELSE LET d == get_dynamic_crime_spots(crime_locations, date, time, day,
                                          cache, mem, now, predictions)
         IN  [graph |-> adjust_weights_for_crime(g, d.spots, radius),
              cache |-> d.cache, memo |-> d.memo]

---------------------------------------------------------------------------
(* Values of the variables a specification does not use *)

NoGraph == [nodes |-> {}, y |-> EmptyMap, x |-> EmptyMap, length |-> EmptyMap]
Idle == [pc |-> "idle"]

AdjUnused == graph = NoGraph /\ nspots = 0 /\ last = None /\ routed = None
CacheUnused ==
    /\ ticks = 0 /\ ncalls = 0 /\ asked = EmptyMap /\ call = None /\ batch = Idle
    /\ details = Idle
ProgUnused ==
    /\ program = "none" /\ heap = EmptyMap /\ G_safe = 0 /\ G_optimized = 0
    /\ crime_spots = <<>> /\ req = Idle /\ nreq = 0
    /\ generated_routes = EmptyMap /\ start_point = <<>> /\ end_point = <<>>
    /\ response = None /\ previous = None
    /\ shown = None /\ latest = EmptyMap

---------------------------------------------------------------------------
(* SpecAdjust: adjust_weights_for_crime, get_astar_route and                *)
(* calculate_route_distance called on one graph object                      *)

InitAdjust ==
    /\ base \in BaseGraphs
    /\ graph = base
    /\ nspots = 0
    /\ last = None
    /\ routed = None
    /\ clock = 0
    /\ CRIME_SEVERITY_CACHE = EmptyMap
    /\ memo = EmptyMap
    /\ CacheUnused
    /\ ProgUnused

AdjustCall ==
    \E k \in 0..Min(MaxSpots, MaxApplied - nspots), radius \in Radii :
      \E crime_locations \in [1..k -> SpotChoices] :
        /\ graph' = adjust_weights_for_crime(graph, crime_locations, radius)
        /\ nspots' = nspots + Len(crime_locations)
        /\ last' = [op |-> "adjust", crime_locations |-> crime_locations,
                    radius |-> radius, before |-> graph]
        /\ routed' = None
        /\ UNCHANGED <<base, clock, CRIME_SEVERITY_CACHE, memo, cacheVars, progVars>>

RouteCall ==
    \E trip \in Trips :
        LET start == trip[1]
            end == trip[2]
            r == get_astar_route(graph, start, end)
            d == IF r.status = "ok" THEN calculate_route_distance(graph, r.route)
                                    ELSE [status |-> r.status, distance |-> Dec(0)]
        IN  /\ routed' = [op |-> "route", start |-> start, end |-> end,
                          status |-> d.status, route |-> r.route, distance |-> d.distance]
            /\ UNCHANGED <<base, graph, nspots, last, clock, CRIME_SEVERITY_CACHE, memo,
                           cacheVars, progVars>>

NextAdjust == AdjustCall \/ RouteCall

SpecAdjust == InitAdjust /\ [][NextAdjust]_vars

---------------------------------------------------------------------------
(* SpecCache: get_crime_severity_cached called over time, directly with     *)
(* chosen arguments and for the crime spots of a request                    *)

\* the clock at start-up: 13:00 on a Thursday
StartTimes == {46800}
\* how long the clock advances in one step
Waits == {1, CRIME_CACHE_EXPIRY - 1, CRIME_CACHE_EXPIRY}
Hours == {13}

InitCache ==
    /\ base = NoGraph
    /\ clock \in StartTimes
    /\ CRIME_SEVERITY_CACHE = EmptyMap
    /\ memo = EmptyMap
    /\ AdjUnused
    /\ CacheUnused
    /\ ProgUnused

Tick ==
    \E d \in Waits :
        /\ ticks < MaxTicks
        /\ clock' = clock + d
        /\ ticks' = ticks + 1
        /\ UNCHANGED <<base, adjVars, progVars, ncalls, CRIME_SEVERITY_CACHE, memo, asked, call,
                       batch, details>>

\* the latest request before now that looked up the spot (lat, lon); -1 if none
LastRequestFor(lat, lon) ==
    LET at == {asked[a].request_at : a \in {b \in DOMAIN asked : b[1] = lat /\ b[2] = lon}}
    IN  IF at = {} THEN -1 ELSE CHOOSE t \in at : \A u \in at : u <= t

Lookup(lat, lon, date, time, day, from_request) ==
    \E prediction \in ModelOutcomes :
        LET args == <<lat, lon, date, time, day>>
            r == get_crime_severity_cached(lat, lon, date, time, day,
                                           CRIME_SEVERITY_CACHE, memo, clock, prediction)
            known == args \in DOMAIN asked
        IN  /\ ncalls < MaxCalls
            /\ ncalls' = ncalls + 1
            /\ CRIME_SEVERITY_CACHE' = r.cache
            /\ memo' = r.memo
            /\ asked' = Put(asked, args,
                            [at |-> clock,
                             request_at |-> IF from_request THEN clock
                                            ELSE IF known THEN asked[args].request_at
                                            ELSE -1])
            /\ call' = [op |-> "lookup", args |-> args, at |-> clock,
                        from_request |-> from_request, prediction |-> prediction,
                        status |-> r.status, severity |-> r.severity,
                        predicted |-> r.predicted,
                        before |-> CRIME_SEVERITY_CACHE,
                        stored |-> IF args \in DOMAIN CRIME_SEVERITY_CACHE
                                   THEN CRIME_SEVERITY_CACHE[args] ELSE <<>>,
                        asked_at |-> IF known THEN asked[args].at ELSE -1,
                        request_at |-> LastRequestFor(lat, lon)]
            /\ UNCHANGED <<base, clock, ticks, batch, details, adjVars, progVars>>

\* get_crime_severity_cached called with arguments of the caller's choice
CallCached ==
    \E spot \in SpotPositions, time \in Hours :
        Lookup(spot[1], spot[2], 0, time, 3, FALSE)

\* the lookup a request arriving now makes for one crime spot: date, time and
\* day are taken from datetime.now() (route_calculations.py 270-273,
\* app.py 150-153)
RequestLookup ==
    \E spot \in SpotPositions :
        Lookup(spot[1], spot[2], clock, Hour(clock), Weekday(clock), TRUE)

NextCache == Tick \/ CallCached \/ RequestLookup

SpecCache == InitCache /\ [][NextCache]_vars

---------------------------------------------------------------------------
(* SpecBatch: one call of get_dynamic_crime_spots.  The main thread submits  *)
(* one future per crime spot, the pool's threads run them, and the main      *)
(* thread collects them with as_completed(futures, timeout=10) inside        *)
(* `with ThreadPoolExecutor(...)`, whose exit is shutdown(wait=True).        *)

\* how long the clock advances in one step while a batch is in progress
BatchWaits == {1, BatchTimeout}

Futures == IF batch.pc = "idle" THEN {} ELSE DOMAIN batch.future
Unfinished == {i \in Futures : batch.future[i].state # "done"}
Running == {i \in Futures : batch.future[i].state = "running"}
Unyielded == {i \in Futures : i \notin batch.yielded}

InitBatch ==
    /\ base = NoGraph
    /\ clock \in StartTimes
    /\ CRIME_SEVERITY_CACHE = EmptyMap
    /\ memo = EmptyMap
    /\ AdjUnused
    /\ CacheUnused
    /\ ProgUnused

\* lines 138-148: the futures are submitted and as_completed starts its clock
CallBatch ==
    \E k \in 0..MaxSpots, time \in Hours :
      \E crime_locations \in [1..k -> SpotPositions] :
        /\ batch.pc = "idle"
        /\ batch' = [pc |-> "collecting",
                     crime_locations |-> crime_locations,
                     date |-> 0, time |-> time, day |-> 3,
                     end_time |-> clock + BatchTimeout,
                     future |-> [i \in 1..k |-> [state |-> "pending", status |-> "",
                                                 severity |-> 0]],
                     finished |-> <<>>,
                     yielded |-> {},
                     dynamic_crime_spots |-> <<>>]
        /\ UNCHANGED <<base, clock, CRIME_SEVERITY_CACHE, memo, adjVars, progVars,
                       ticks, ncalls, asked, call, details>>

\* the entries a call stored: those of `new` that `old` did not hold, put
\* into the map as it is when the call stores them
Store(current, old, new) ==
    [k \in DOMAIN current \cup DOMAIN new |->
        IF k \in DOMAIN new /\ (k \notin DOMAIN old \/ new[k] # old[k])
        THEN new[k] ELSE current[k]]

\* a thread of the pool takes the oldest work item from the queue and runs
\* process_spot up to the predictor: the time is read (line 123) and the cache
\* is looked at (lines 126-129) now, the entry is stored (line 133) later
WorkerStart ==
    \E i \in Futures :
        /\ batch.pc \in {"collecting", "shutdown"}
        /\ batch.future[i].state = "pending"
        /\ \A j \in Futures : j < i => batch.future[j].state # "pending"
        /\ Cardinality(Running) < max_workers
        /\ batch' = [batch EXCEPT !.future[i] =
                        [state |-> "running", status |-> "", severity |-> 0,
                         now |-> clock, cache |-> CRIME_SEVERITY_CACHE, memo |-> memo]]
        /\ UNCHANGED <<base, clock, CRIME_SEVERITY_CACHE, memo, adjVars, progVars,
                       ticks, ncalls, asked, call, details>>

\* process_spot (lines 140-143) runs get_crime_severity_cached to its end: a
\* return value or an exception, kept in the future
WorkerFinish ==
    \E i \in Futures, prediction \in ModelOutcomes :
        LET spot == batch.crime_locations[i]
            seen == batch.future[i]
            r == get_crime_severity_cached(spot[1], spot[2], batch.date, batch.time,
                                           batch.day, seen.cache, seen.memo, seen.now,
                                           prediction)
        IN  /\ batch.pc \in {"collecting", "shutdown"}
            /\ batch.future[i].state = "running"
            /\ CRIME_SEVERITY_CACHE' = Store(CRIME_SEVERITY_CACHE, seen.cache, r.cache)
            /\ memo' = Store(memo, seen.memo, r.memo)
            /\ batch' = [batch EXCEPT
                            !.future[i] = [state |-> "done", status |-> r.status,
                                           severity |-> r.severity, now |-> seen.now],
                            !.finished = Append(@, i)]
            /\ UNCHANGED <<base, clock, adjVars, progVars, ticks, ncalls, asked, call, details>>

\* lines 148-153: as_completed yields a finished future; its result is
\* appended, or its exception is logged and the spot is left out
Collect ==
    \E i \in Unyielded :
        /\ batch.pc = "collecting"
        /\ batch.future[i].state = "done"
        /\ batch' = [batch EXCEPT
                        !.yielded = @ \cup {i},
                        !.dynamic_crime_spots =
                            IF batch.future[i].status = "ok"
                            THEN Append(@, <<batch.crime_locations[i][1],
                                             batch.crime_locations[i][2],
                                             batch.future[i].severity>>)
                            ELSE @]
        /\ UNCHANGED <<base, clock, CRIME_SEVERITY_CACHE, memo, adjVars, progVars,
                       ticks, ncalls, asked, call, details>>

\* line 148: as_completed finds its time used up with futures it has not
\* yielded and raises TimeoutError in the loop header, outside the try of
\* line 149.  The exception leaves the `with` block, whose exit waits for
\* every future that is not finished.
Timeout ==
    /\ batch.pc = "collecting"
    /\ Unyielded # {}
    /\ clock > batch.end_time
    /\ batch' = [batch EXCEPT !.pc = IF Unfinished = {} THEN "raised" ELSE "shutdown"]
    /\ UNCHANGED <<base, clock, CRIME_SEVERITY_CACHE, memo, adjVars, progVars,
                   ticks, ncalls, asked, call, details>>

\* executor.shutdown(wait=True) returns when the last future has finished;
\* the TimeoutError then reaches the caller
ShutdownDone ==
    /\ batch.pc = "shutdown"
    /\ Unfinished = {}
    /\ batch' = [batch EXCEPT !.pc = "raised"]
    /\ UNCHANGED <<base, clock, CRIME_SEVERITY_CACHE, memo, adjVars, progVars,
                   ticks, ncalls, asked, call, details>>

\* line 155: every future has been yielded; return dynamic_crime_spots
ReturnBatch ==
    /\ batch.pc = "collecting"
    /\ Unyielded = {}
    /\ batch' = [batch EXCEPT !.pc = "returned"]
    /\ UNCHANGED <<base, clock, CRIME_SEVERITY_CACHE, memo, adjVars, progVars,
                   ticks, ncalls, asked, call, details>>

\* time passes while the batch is in progress
Elapse ==
    \E d \in BatchWaits :
        /\ batch.pc \in {"collecting", "shutdown"}
        /\ ticks < MaxTicks
        /\ clock' = clock + d
        /\ ticks' = ticks + 1
        /\ UNCHANGED <<base, CRIME_SEVERITY_CACHE, memo, adjVars, progVars,
                       ncalls, asked, call, batch, details>>

NextBatch ==
    \/ CallBatch
    \/ WorkerStart
    \/ WorkerFinish
    \/ Collect
    \/ Timeout
    \/ ShutdownDone
    \/ ReturnBatch
    \/ Elapse

SpecBatch == InitBatch /\ [][NextBatch]_vars

---------------------------------------------------------------------------
(* SpecRemove: remove_crime_spots called on a road graph, with the radius    *)
(* and the thresholds the modules use                                         *)

Thresholds == {r_SafeMaxSeverity, r_OptimizedMaxSeverity}

RemoveCall ==
    \E k \in 0..Min(MaxSpots, MaxApplied - nspots), max_severity \in Thresholds :
      \E crime_locations \in [1..k -> SpotChoices] :
        /\ graph' = remove_crime_spots(graph, crime_locations, crime_radius, max_severity)
        /\ nspots' = nspots + Len(crime_locations)
        /\ last' = [op |-> "remove", crime_locations |-> crime_locations,
                    radius |-> crime_radius, max_severity |-> max_severity,
                    before |-> graph]
        /\ routed' = None
        /\ UNCHANGED <<base, clock, CRIME_SEVERITY_CACHE, memo, cacheVars, progVars>>

NextRemove == RemoveCall

SpecRemove == InitAdjust /\ [][NextRemove]_vars

---------------------------------------------------------------------------
(* SpecDetails: get_route_crime_details(graph, route, crime_data, radius).   *)
(* A crime record is [latitude, longitude, date, type]; the date is in       *)
(* seconds, NaT where the data set has no date.                              *)

MaxRecords == 2
MaxRouteLen == 101

\* pd.NaT: to_datetime(..., errors='coerce') of a date that cannot be read
NaT == 0 - 1

Week == 604800

\* min(total_severity, 100), in tenths
SeverityCeiling == 1000

\* route[::sample_every] with sample_every = max(1, len(route) // 50)
SampledRoute(route) ==
    LET sample_every == IF Len(route) \div 50 >= 1 THEN Len(route) \div 50 ELSE 1
    IN  [i \in 1..((Len(route) + sample_every - 1) \div sample_every) |->
            route[(i - 1) * sample_every + 1]]

\* time_ranges.get(severity, time_ranges[0.0]), in seconds
TimeRange(severity) ==
    CASE severity = 0 -> 6 * Week
      [] severity = 2 -> 12 * Week
      [] severity = 5 -> 18 * Week
      [] severity = 7 -> 24 * Week
      [] severity = 10 -> 36 * Week
      [] OTHER -> 6 * Week

\* the rows of crime_data in the box of (lat, lon), in the order of the data
NearbyCrimes(crime_data, lat, lon, radius) ==
    SelectSeq([i \in DOMAIN crime_data |-> i],
              LAMBDA i : /\ Abs(crime_data[i].latitude - lat) < radius
                         /\ Abs(crime_data[i].longitude - lon) < radius)

\* lines 228-245 for the rows `nearby` from the j-th on, around the node `node`.
\* acc.added lists the additions to total_severity made: <<node, row>>.
\* lines 229-245 for one row of crime_data near the node `node`
ScanCrime(crime, row, node, now, prediction, acc) ==
    LET crime_date == crime.date
    IN  IF crime_date = NaT THEN acc
        ELSE CHOOSE next \in
               {IF r.status # "ok"
                THEN [acc EXCEPT !.status = r.status, !.cache = r.cache, !.memo = r.memo]
                ELSE IF crime_date >= now - TimeRange(r.severity)
                THEN [acc EXCEPT !.cache = r.cache, !.memo = r.memo,
                                 !.total_severity = @ + r.severity,
                                 !.crime_types = @ \cup {crime.type},
                                 !.added = Append(@, <<node, row>>)]
                ELSE [acc EXCEPT !.cache = r.cache, !.memo = r.memo] :
                  r \in {get_crime_severity_cached(crime.latitude, crime.longitude,
                                                   crime_date, 0, Weekday(crime_date),
                                                   acc.cache, acc.memo, now, prediction)}} :
               TRUE

\* lines 228-245 for the rows `nearby` from the j-th on, around the node `node`.
\* acc.added lists the additions to total_severity made: <<node, row>>.
RECURSIVE ScanCrimes(_, _, _, _, _, _, _)
ScanCrimes(crime_data, nearby, j, node, now, predictions, acc) ==
    IF j > Len(nearby) \/ acc.status # "ok" THEN acc
    ELSE CHOOSE end \in
           {ScanCrimes(crime_data, nearby, j + 1, node, now, predictions, next) :
              next \in {ScanCrime(crime_data[nearby[j]], nearby[j], node, now,
                                  predictions[nearby[j]], acc)}} :
           TRUE

\* lines 220-245 for the nodes of one batch from the i-th on
RECURSIVE ScanNodes(_, _, _, _, _, _, _, _)
ScanNodes(g, batch_nodes, i, crime_data, radius, now, predictions, acc) ==
    IF i > Len(batch_nodes) \/ acc.status # "ok" THEN acc
    ELSE CHOOSE end \in
           {ScanNodes(g, batch_nodes, i + 1, crime_data, radius, now, predictions, next) :
              next \in {ScanCrimes(crime_data,
                                   NearbyCrimes(crime_data, g.y[batch_nodes[i]],
                                                g.x[batch_nodes[i]], radius),
                                   1, batch_nodes[i], now, predictions, acc)}} :
           TRUE

batch_size == 10

\* lines 213-245: the batches sampled_route[i:i+batch_size] from the one that
\* starts after the first `done` nodes on
RECURSIVE ScanBatches(_, _, _, _, _, _, _, _)
ScanBatches(g, sampled_route, done, crime_data, radius, now, predictions, acc) ==
    IF done >= Len(sampled_route) \/ acc.status # "ok" THEN acc
    ELSE CHOOSE end \in
           {ScanBatches(g, sampled_route, done + batch_size, crime_data, radius, now,
                        predictions, next) :
              next \in {ScanNodes(g,
                                  SubSeq(sampled_route, done + 1,
                                         Min(done + batch_size, Len(sampled_route))),
                                  1, crime_data, radius, now, predictions, acc)}} :
           TRUE

\* get_route_crime_details: any exception ends in `return 0, []` (lines
\* 250-252); what the lookups stored before it stays stored
get_route_crime_details(g, route, crime_data, radius, cache, mem, now, predictions) ==
    CHOOSE result \in
      {[status |-> scan.status,
        sampled_route |-> sampled_route,
        total_severity |-> IF scan.status = "ok"
                           THEN Min(scan.total_severity, SeverityCeiling) ELSE 0,
        crime_types |-> IF scan.status = "ok" THEN scan.crime_types ELSE {},
        added |-> scan.added,
        cache |-> scan.cache,
        memo |-> scan.memo] :
          sampled_route \in {SampledRoute(route)},
          scan \in {ScanBatches(g, SampledRoute(route), 0, crime_data, radius, now, predictions,
                              [status |-> "ok", total_severity |-> 0, crime_types |-> {},
                               added |-> <<>>, cache |-> cache, memo |-> mem])}} :
      TRUE

\* a straight road of n nodes 0.001 degree apart, and the route along it
LongRoad(n) ==
    [nodes |-> 1..n,
     y |-> [i \in 1..n |-> 0],
     x |-> [i \in 1..n |-> i - 1],
     length |-> [e \in {<<i, i + 1, 0>> : i \in 1..(n - 1)} |-> Dec(100)]]

RouteLengths == {1, 3, 6} \cup {n \in 50..MaxRouteLen : n % 50 \in {0, 1, 49}}

\* the clock at which the details are asked for
DetailTimes == {40 * Week + 46800}

\* crime records: on the road or off it, dated last week, forty weeks ago or
\* not at all
CrimeRecords(now) ==
    {[latitude |-> p[1], longitude |-> p[2], date |-> d,
      type |-> IF p[2] = 1 THEN "Theft" ELSE "Assault"] :
        p \in {<<0, 1>>, <<4, 5>>}, d \in {NaT, now - Week, now - 40 * Week}}

DetailOutcomes == {"raise", "Very Low", "Very High"}

InitDetails ==
    /\ base = NoGraph
    /\ clock \in DetailTimes
    /\ CRIME_SEVERITY_CACHE = EmptyMap
    /\ memo = EmptyMap
    /\ AdjUnused
    /\ CacheUnused
    /\ ProgUnused

DetailsCall ==
    /\ details.pc = "idle"
    /\ \E n \in RouteLengths, k \in 0..MaxRecords :
      \E crime_data \in [1..k -> CrimeRecords(clock)], predictions \in [1..k -> DetailOutcomes] :
        \E r \in {get_route_crime_details(LongRoad(n), [i \in 1..n |-> i], crime_data,
                                           crime_radius, CRIME_SEVERITY_CACHE, memo, clock,
                                           predictions)} :
            /\ details' = [pc |-> "returned", graph |-> LongRoad(n),
                           route |-> [i \in 1..n |-> i], crime_data |-> crime_data,
                           radius |-> crime_radius, predictions |-> predictions,
                           status |-> r.status,
                           sampled_route |-> r.sampled_route,
                           total_severity |-> r.total_severity,
                           crime_types |-> r.crime_types, added |-> r.added]
            /\ CRIME_SEVERITY_CACHE' = r.cache
            /\ memo' = r.memo
            /\ UNCHANGED <<base, clock, adjVars, progVars, ticks, ncalls, asked, call, batch>>

NextDetails == DetailsCall

SpecDetails == InitDetails /\ [][NextDetails]_vars

---------------------------------------------------------------------------
(* SpecNear: one call of adjust_weights_for_crime, of remove_crime_spots or  *)
(* of get_route_crime_details for one crime location placed around a node of *)
(* the graph: inside its box, on the edge of the box, and outside            *)

NearOffsets(radius) == {0, radius - 1, radius, radius + 1}

\* crime locations <<lat, lon, severity>> around the nodes of g
NearSpots(g, radius) ==
    {<<g.y[n] + dy, g.x[n] + dx, severity>> :
        n \in g.nodes, dy \in NearOffsets(radius), dx \in NearOffsets(radius),
        severity \in {5, 10}}

NearAdjust ==
    /\ last = None
    /\ details.pc = "idle"
    /\ \E radius \in Radii :
         \E spot \in NearSpots(graph, radius) :
            /\ graph' = adjust_weights_for_crime(graph, <<spot>>, radius)
            /\ last' = [op |-> "adjust", crime_locations |-> <<spot>>,
                        radius |-> radius, before |-> graph]
            /\ UNCHANGED <<base, nspots, routed, clock, CRIME_SEVERITY_CACHE, memo,
                           cacheVars, progVars>>

NearRemove ==
    /\ last = None
    /\ details.pc = "idle"
    /\ \E radius \in Radii, max_severity \in Thresholds :
         \E spot \in NearSpots(graph, radius) :
            /\ graph' = remove_crime_spots(graph, <<spot>>, radius, max_severity)
            /\ last' = [op |-> "remove", crime_locations |-> <<spot>>,
                        radius |-> radius, max_severity |-> max_severity,
                        before |-> graph]
            /\ UNCHANGED <<base, nspots, routed, clock, CRIME_SEVERITY_CACHE, memo,
                           cacheVars, progVars>>

\* the crime location is a dated record of crime_data; the route is the
\* Fastest route of a trip
NearDetails ==
    /\ last = None
    /\ details.pc = "idle"
    /\ \E radius \in Radii, trip \in Trips, prediction \in DetailOutcomes :
         \E spot \in NearSpots(graph, radius),
            route \in {get_astar_route(graph, trip[1], trip[2]).route} :
           \E crime_data \in {<<[latitude |-> spot[1], longitude |-> spot[2],
                                  date |-> clock - Week, type |-> "Theft"]>>} :
             \E r \in {get_route_crime_details(graph, route, crime_data, radius,
                                                CRIME_SEVERITY_CACHE, memo, clock,
                                                <<prediction>>)} :
                /\ details' = [pc |-> "returned", graph |-> graph, route |-> route,
                               crime_data |-> crime_data, radius |-> radius,
                               predictions |-> <<prediction>>,
                               status |-> r.status,
                               sampled_route |-> r.sampled_route,
                               total_severity |-> r.total_severity,
                               crime_types |-> r.crime_types, added |-> r.added]
                /\ CRIME_SEVERITY_CACHE' = r.cache
                /\ memo' = r.memo
                /\ UNCHANGED <<base, clock, adjVars, progVars, ticks, ncalls, asked,
                               call, batch>>

NextNear == NearAdjust \/ NearRemove \/ NearDetails

SpecNear == InitAdjust /\ [][NextNear]_vars

---------------------------------------------------------------------------
(* Spec: the request handlers.  a1.generate_routes works on the graphs r1   *)
(* builds when it is imported; route_calculations.calculate_routes_api and  *)
(* app.generate_routes work on copies of route_calculations.G.              *)

\* the graph object the module global G refers to
G == 1

\* max_severity of the two remove_crime_spots calls of r1.py
SafeMaxSeverity == 3
OptimizedMaxSeverity == 8

\* the lowest reference not in use
NewRef(h) ==
    CHOOSE r \in 1..(Cardinality(DOMAIN h) + 1) :
        r \notin DOMAIN h /\ \A q \in 1..(r - 1) : q \in DOMAIN h

\* no copy: the same object again
SameObject(h, ref) == [ref |-> ref, heap |-> h]

\* copy.deepcopy(graph): a new object with the contents of `ref`
deepcopy(h, ref) == [ref |-> NewRef(h), heap |-> Put(h, NewRef(h), h[ref])]

\* the module-level statements of r1.py (lines 52-54 and 93-94)
ImportR1(g, spots) ==
    LET s == deepcopy((G :> g), G)
        o == deepcopy(s.heap, G)
        h1 == Put(o.heap, s.ref,
                  remove_crime_spots(o.heap[s.ref], spots, crime_radius, SafeMaxSeverity))
        h2 == Put(h1, o.ref,
                  remove_crime_spots(h1[o.ref], spots, crime_radius, OptimizedMaxSeverity))
    IN  [heap |-> h2, G_safe |-> s.ref, G_optimized |-> o.ref]

\* the module-level statements of r.py (lines 16-18 and 64-65)
ImportR(g, spots) ==
    LET s == deepcopy((G :> g), G)
        o == deepcopy(s.heap, G)
        h1 == Put(o.heap, s.ref,
                  remove_crime_spots(o.heap[s.ref], spots, crime_radius, r_SafeMaxSeverity))
        h2 == Put(h1, o.ref,
                  remove_crime_spots(h1[o.ref], spots, crime_radius, r_OptimizedMaxSeverity))
    IN  [heap |-> h2, G_safe |-> s.ref, G_optimized |-> o.ref]

\* the module-level statements of route_calculations.py (lines 33-37)
ImportRouteCalculations(g) == [heap |-> (G :> g), G_safe |-> 0, G_optimized |-> 0]

Programs == {"a", "a1", "rc", "app"}

\* the users whose browsers send requests to a1
Users == {1, 2}

\* the route_type values of the form of map.html, and the routes each selects
RouteTypes == {"all", "fastest", "safest", "optimized"}

Selected(route_type) ==
    IF route_type = "all" THEN {"Fastest", "Safest", "Optimized"}
    ELSE IF route_type = "fastest" THEN {"Fastest"}
    ELSE IF route_type = "safest" THEN {"Safest"}
    ELSE {"Optimized"}

\* the page update_map renders from the module's globals
Page(routes, route_type, start, end) ==
    [status |-> "map",
     routes |-> [n \in DOMAIN routes \cap Selected(route_type) |-> routes[n]],
     start_place |-> start, end_place |-> end]

\* a road graph with the crime spots of the data set
Scenarios ==
    {[graph |-> LineGraph, crime_spots |-> <<<<0, 10, 5>>>>],
     [graph |-> DetourGraph, crime_spots |-> <<<<0, 10, 5>>>>],
     [graph |-> DetourGraph, crime_spots |-> <<<<0, 10, 2>>>>],
     [graph |-> CarriagewayGraph, crime_spots |-> <<<<0, 1, 2>>, <<0, 1, 1>>>>],
     [graph |-> LineGraph, crime_spots |-> <<<<0, 10, 10>>>>],
     [graph |-> OneWayGraph, crime_spots |-> <<<<0, 10, 2>>>>]}

\* what the geocoder returns for a place it does not know
NoPlace == <<>>

\* the trips asked for: there, back, and from a place the geocoder does not know
RequestTrips ==
    Trips \cup {<<t[2], t[1]>> : t \in Trips} \cup {<<NoPlace, t[2]>> : t \in Trips}

\* get_astar_route followed by calculate_route_distance on its result
Measured(g, r) ==
    IF r.status # "ok"
    THEN [status |-> r.status, route |-> <<>>, distance |-> Dec(0)]
    ELSE [status |-> calculate_route_distance(g, r.route).status,
          route |-> r.route,
          distance |-> calculate_route_distance(g, r.route).distance]

RouteEntry(g, start, end) ==
    CHOOSE m \in {Measured(g, r) : r \in {get_astar_route(g, start, end)}} : TRUE

\* the try blocks of a1.generate_routes catch NetworkXNoPath only
Caught(r) == r.status \in {"ok", "NetworkXNoPath"}

\* the entry a try block of a1.generate_routes adds to generated_routes
Entry(name, r) ==
    IF r.status = "ok" THEN (name :> [route |-> r.route, distance |-> r.distance])
                       ELSE EmptyMap

\* fastest_route_distance / 1000
Km(d) == DNorm(d[1], d[2] + 3)

Respond(r) == response' = r /\ previous' = response

Init ==
    /\ program \in Programs
    /\ \E sc \in Scenarios :
         LET m == IF program = "a1" THEN ImportR1(sc.graph, sc.crime_spots)
                  ELSE IF program = "a" THEN ImportR(sc.graph, sc.crime_spots)
                  ELSE ImportRouteCalculations(sc.graph)
         IN  /\ base = sc.graph
             /\ crime_spots = sc.crime_spots
             /\ heap = m.heap
             /\ G_safe = m.G_safe
             /\ G_optimized = m.G_optimized
    /\ req = Idle
    /\ nreq = 0
    /\ generated_routes = EmptyMap
    /\ start_point = <<>>
    /\ end_point = <<>>
    /\ response = None
    /\ previous = None
    /\ shown = None
    /\ latest = [user \in Users |-> None]
    /\ clock \in StartTimes
    /\ CRIME_SEVERITY_CACHE = EmptyMap
    /\ memo = EmptyMap
    /\ AdjUnused
    /\ CacheUnused

\* a.find_routes, lines 31-47: the places are geocoded, G_safe is adjusted and
\* the nodes of G_optimized near a crime spot above 0.5 are removed, both in
\* the module's own graph objects
a_find_routes ==
    \E trip \in RequestTrips :
        /\ program = "a"
        /\ req.pc = "idle"
        /\ nreq < MaxRequests
        /\ nreq' = nreq + 1
        /\ IF trip[1] = NoPlace \/ trip[2] = NoPlace
           THEN /\ Respond([status |-> "Error: Could not find one or both of the locations.",
                            trip |-> trip, routes |-> EmptyMap])
                /\ UNCHANGED <<req, heap>>
           ELSE /\ heap' = [heap EXCEPT
                              ![G_safe] = adjust_weights_for_crime(@, crime_spots, crime_radius),
                              ![G_optimized] = remove_crime_spots(@, crime_spots, crime_radius,
                                                                  a_MaxSeverity)]
                /\ req' = [pc |-> "routes", trip |-> trip, safe_graph |-> G_safe,
                           optimized_graph |-> G_optimized]
                /\ UNCHANGED <<response, previous>>
        /\ UNCHANGED <<base, clock, CRIME_SEVERITY_CACHE, memo, adjVars, cacheVars,
                       program, shown, latest, G_safe, G_optimized, crime_spots, generated_routes,
                       start_point, end_point>>

\* a.find_routes, lines 50-57 and the map made of the three routes: nothing
\* is caught, so a route that cannot be computed ends the request with a 500
a_Routes ==
    /\ program = "a"
    /\ req.pc = "routes"
    /\ \E f \in {RouteEntry(heap[G], req.trip[1], req.trip[2])},
          s \in {RouteEntry(heap[req.safe_graph], req.trip[1], req.trip[2])},
          o \in {RouteEntry(heap[req.optimized_graph], req.trip[1], req.trip[2])} :
         IF f.status = "ok" /\ s.status = "ok" /\ o.status = "ok"
         THEN Respond([status |-> "map", trip |-> req.trip,
                       routes |-> Entry("Fastest", f) @@ Entry("Safest", s)
                                  @@ Entry("Optimized", o)])
         ELSE Respond([status |-> "500", trip |-> req.trip, routes |-> EmptyMap])
    /\ req' = Idle
    /\ UNCHANGED <<base, clock, CRIME_SEVERITY_CACHE, memo, adjVars, cacheVars,
                   program, shown, latest, heap, G_safe, G_optimized, crime_spots, nreq,
                   generated_routes, start_point, end_point>>

\* a1.generate_routes, lines 36-53
a1_generate_routes ==
    \E trip \in RequestTrips, user \in Users :
        /\ program = "a1"
        /\ req.pc = "idle"
        /\ nreq < MaxRequests
        /\ nreq' = nreq + 1
        /\ generated_routes' = EmptyMap
        /\ latest' = [latest EXCEPT ![user] = None]
        /\ IF trip[1] = NoPlace \/ trip[2] = NoPlace
           THEN /\ Respond([status |-> "Error: Could not find one or both of the locations.",
                            trip |-> trip, routes |-> EmptyMap])
                /\ UNCHANGED <<req, start_point, end_point>>
           ELSE /\ start_point' = trip[1]
                /\ end_point' = trip[2]
                /\ req' = [pc |-> "safe", trip |-> trip, safe_graph |-> 0,
                           optimized_graph |-> 0, user |-> user]
                /\ UNCHANGED <<response, previous>>
        /\ UNCHANGED <<base, clock, CRIME_SEVERITY_CACHE, memo, adjVars, cacheVars,
                       program, shown, heap, G_safe, G_optimized, crime_spots>>

\* a1.generate_routes, line 56
a1_AdjustSafe ==
    /\ program = "a1"
    /\ req.pc = "safe"
    /\ heap' = [heap EXCEPT ![G_safe] = adjust_weights_for_crime(@, crime_spots, crime_radius)]
    /\ req' = [req EXCEPT !.pc = "optimized", !.safe_graph = G_safe]
    /\ UNCHANGED <<base, clock, CRIME_SEVERITY_CACHE, memo, adjVars, cacheVars,
                   program, shown, latest, G_safe, G_optimized, crime_spots, nreq,
                   generated_routes, start_point, end_point, response, previous>>

\* a1.generate_routes, line 57
a1_AdjustOptimized ==
    /\ program = "a1"
    /\ req.pc = "optimized"
    /\ heap' = [heap EXCEPT ![G_optimized] =
                    adjust_weights_for_crime(@, crime_spots, crime_radius)]
    /\ req' = [req EXCEPT !.pc = "routes", !.optimized_graph = G_optimized]
    /\ UNCHANGED <<base, clock, CRIME_SEVERITY_CACHE, memo, adjVars, cacheVars,
                   program, shown, latest, G_safe, G_optimized, crime_spots, nreq,
                   generated_routes, start_point, end_point, response, previous>>

\* a1.generate_routes, lines 60-88, and the update_map call that renders the
\* routes found
a1_Routes ==
    /\ program = "a1"
    /\ req.pc = "routes"
    /\ \E f \in {RouteEntry(heap[G], start_point, end_point)},
          s \in {RouteEntry(heap[req.safe_graph], start_point, end_point)},
          o \in {RouteEntry(heap[req.optimized_graph], start_point, end_point)} :
         LET crashed == ~(Caught(f) /\ Caught(s) /\ Caught(o))
             routes == Entry("Fastest", f)
                       @@ (IF Caught(f) THEN Entry("Safest", s) ELSE EmptyMap)
                       @@ (IF Caught(f) /\ Caught(s) THEN Entry("Optimized", o)
                                                     ELSE EmptyMap)
         IN  /\ generated_routes' = routes
             /\ Respond([status |-> IF crashed THEN "500" ELSE "map",
                         trip |-> req.trip,
                         routes |-> IF crashed THEN EmptyMap ELSE routes])
             /\ latest' = [latest EXCEPT ![req.user] =
                               IF crashed THEN None
                               ELSE Page(routes, "all", start_point, end_point)]
    /\ req' = Idle
    /\ UNCHANGED <<base, clock, CRIME_SEVERITY_CACHE, memo, adjVars, cacheVars,
                   program, shown, heap, G_safe, G_optimized, crime_spots, nreq,
                   start_point, end_point>>

\* a1.update_map, lines 182-233, called by the /update_map route: the page is
\* made of the module's generated_routes, start_point and end_point.  Before
\* the first generate_routes start_point is None and the marker of line 212
\* cannot be rendered.
a1_update_map ==
    \E user \in Users, route_type \in RouteTypes :
        /\ program = "a1"
        /\ req.pc = "idle"
        /\ shown' = [user |-> user, route_type |-> route_type,
                     page |-> IF start_point = <<>>
                              THEN [status |-> "500"]
                              ELSE Page(generated_routes, route_type, start_point,
                                        end_point)]
        /\ UNCHANGED <<base, clock, CRIME_SEVERITY_CACHE, memo, adjVars, cacheVars,
                       program, latest, heap, G_safe, G_optimized, crime_spots, req, nreq,
                       generated_routes, start_point, end_point, response, previous>>

\* the (lat, lon) pairs route_calculations.crime_spots holds (line 56)
Positions(spots) == [i \in DOMAIN spots |-> <<spots[i][1], spots[i][2]>>]

\* route_calculations.calculate_routes_api, lines 257-273
calculate_routes_api ==
    \E trip \in RequestTrips :
        /\ program = "rc"
        /\ req.pc = "idle"
        /\ nreq < MaxRequests
        /\ nreq' = nreq + 1
        /\ IF trip[1] = NoPlace \/ trip[2] = NoPlace
           THEN /\ Respond([status |-> "400", trip |-> trip, routes |-> EmptyMap])
                /\ UNCHANGED req
           ELSE /\ req' = [pc |-> "safe", trip |-> trip, safe_graph |-> 0,
                           optimized_graph |-> 0, date |-> clock,
                           time |-> Hour(clock), day |-> Weekday(clock)]
                /\ UNCHANGED <<response, previous>>
        /\ UNCHANGED <<base, clock, CRIME_SEVERITY_CACHE, memo, adjVars, cacheVars,
                       program, shown, latest, heap, G_safe, G_optimized, crime_spots,
                       generated_routes, start_point, end_point>>

\* update_graphs_with_dynamic_severity(copy.deepcopy(G), crime_spots, date,
\* time, day, radius) with the result stored in the handler's local `field`
PrepareGraph(field, radius, pc) ==
    \E predictions \in [DOMAIN crime_spots -> ModelOutcomes] :
        LET c == deepcopy(heap, G)
            u == update_graphs_with_dynamic_severity(
                     c.heap[c.ref], Positions(crime_spots), req.date, req.time, req.day,
                     radius, CRIME_SEVERITY_CACHE, memo, clock, predictions)
        IN  /\ heap' = Put(c.heap, c.ref, u.graph)
            /\ CRIME_SEVERITY_CACHE' = u.cache
            /\ memo' = u.memo
            /\ req' = [req EXCEPT !.pc = pc, ![field] = c.ref]
            /\ UNCHANGED <<base, clock, adjVars, cacheVars, program, shown, latest, G_safe, G_optimized,
                           crime_spots, nreq, generated_routes, start_point, end_point,
                           response, previous>>

\* route_calculations.calculate_routes_api, line 276
rc_SafeGraph ==
    /\ program = "rc"
    /\ req.pc = "safe"
    /\ PrepareGraph("safe_graph", crime_radius, "optimized")

\* route_calculations.calculate_routes_api, line 277
rc_OptimizedGraph ==
    /\ program = "rc"
    /\ req.pc = "optimized"
    /\ PrepareGraph("optimized_graph", crime_radius, "routes")

\* route_calculations.calculate_routes_api, lines 280-313: nothing is caught,
\* so a route that cannot be computed ends the request with a 500.  The two
\* copies are dropped with the handler's locals.  (The crime details of the
\* response are not part of the record kept here.)
rc_Routes ==
    /\ program = "rc"
    /\ req.pc = "routes"
    /\ \E f \in {RouteEntry(heap[G], req.trip[1], req.trip[2])},
          s \in {RouteEntry(heap[req.safe_graph], req.trip[1], req.trip[2])},
          o \in {RouteEntry(heap[req.optimized_graph], req.trip[1], req.trip[2])} :
         LET entry(r) == [route |-> r.route, distance |-> Km(r.distance)]
         IN  IF f.status = "ok" /\ s.status = "ok" /\ o.status = "ok"
             THEN Respond([status |-> "200", trip |-> req.trip,
                           routes |-> ("Fastest" :> entry(f)) @@ ("Safest" :> entry(s))
                                      @@ ("Optimized" :> entry(o))])
             ELSE Respond([status |-> "500", trip |-> req.trip, routes |-> EmptyMap])
    /\ heap' = [r \in {G} |-> heap[r]]
    /\ req' = Idle
    /\ UNCHANGED <<base, clock, CRIME_SEVERITY_CACHE, memo, adjVars, cacheVars,
                   program, shown, latest, G_safe, G_optimized, crime_spots, nreq,
                   generated_routes, start_point, end_point>>

\* app.generate_routes: `time` is assigned at line 152, so it is a local of
\* the function and line 105 reads it before it is bound.  The
\* UnboundLocalError is raised outside the try block and the request ends in
\* the 500 handler.
app_generate_routes ==
    \E trip \in RequestTrips :
        /\ program = "app"
        /\ req.pc = "idle"
        /\ nreq < MaxRequests
        /\ nreq' = nreq + 1
        /\ Respond([status |-> "500", trip |-> trip, routes |-> EmptyMap])
        /\ UNCHANGED <<base, clock, CRIME_SEVERITY_CACHE, memo, adjVars, cacheVars,
                       program, shown, latest, heap, G_safe, G_optimized, crime_spots, req,
                       generated_routes, start_point, end_point>>

Next ==
    \/ a_find_routes
    \/ a_Routes
    \/ a1_generate_routes
    \/ a1_AdjustSafe
    \/ a1_AdjustOptimized
    \/ a1_Routes
    \/ a1_update_map
    \/ calculate_routes_api
    \/ rc_SafeGraph
    \/ rc_OptimizedGraph
    \/ rc_Routes
    \/ app_generate_routes

Spec == Init /\ [][Next]_vars

---------------------------------------------------------------------------
(* Claims about adjust_weights_for_crime and the path finder (SpecAdjust)   *)

Permuted(seq, p) == [i \in DOMAIN seq |-> seq[p[i]]]

\* C1: after adjust_weights_for_crime with severities in [0, 1], and after any
\* sequence of such calls on one graph, every edge is at least as long as it
\* was before the call and as it was when the graph was loaded; no edge is
\* added or dropped.
C1_LengthNeverDecreases ==
    /\ Edges(graph) = Edges(base)
    /\ \A e \in Edges(graph) : DLeq(base.length[e], graph.length[e])
    /\ last.op = "adjust" =>
         \A e \in Edges(graph) : DLeq(last.before.length[e], graph.length[e])

\* a second call has lengthened an edge that an earlier call had lengthened
C1_Witness ==
    /\ last.op = "adjust"
    /\ \E e \in Edges(graph) :
         /\ DLt(base.length[e], last.before.length[e])
         /\ DLt(last.before.length[e], graph.length[e])

\* C2: the lengths adjust_weights_for_crime leaves are the same for every
\* permutation of the crime-spot list, and spots that reach the same edge
\* multiply: 100 with severities 0.2 and 0.5 becomes 180 in either order.
C2_OrderIndependent ==
    last.op = "adjust" =>
        /\ \A p \in Permutations(DOMAIN last.crime_locations) :
             adjust_weights_for_crime(last.before,
                                      Permuted(last.crime_locations, p),
                                      last.radius) = graph
        /\ \A a \in {2, 5}, b \in {2, 5} :
             (/\ last.before = LineGraph
              /\ last.radius = crime_radius
              /\ a # b
              /\ last.crime_locations = <<<<0, 10, a>>, <<0, 10, b>>>>)
             => graph.length[<<2, 1, 0>>] = Dec(180)

\* two spots of different severity have been applied to the same edge
C2_Witness ==
    /\ last.op = "adjust"
    /\ last.before = LineGraph
    /\ last.crime_locations = <<<<0, 10, 5>>, <<0, 10, 2>>>>
    /\ last.radius = crime_radius
    /\ graph.length[<<2, 3, 0>>] = Dec(180)

\* C3: on A - B - C - D (100, 100, 100) with one spot of severity 0.5 whose box
\* holds only B, the streets B-A and B-C become 150, C-D stays 100, the route
\* from A to D is [A, B, C, D] and its distance is 400 (300 unadjusted).
C3_LinearScenario ==
    (/\ last.op = "adjust"
     /\ last.before = LineGraph
     /\ last.crime_locations = <<<<0, 10, 5>>>>
     /\ last.radius = crime_radius
     /\ routed.op = "route"
     /\ routed.start = <<0, 0>>
     /\ routed.end = <<0, 30>>)
    => /\ \A e \in {<<2, 1, 0>>, <<1, 2, 0>>, <<2, 3, 0>>, <<3, 2, 0>>} :
            graph.length[e] = Dec(150)
       /\ \A e \in {<<3, 4, 0>>, <<4, 3, 0>>} : graph.length[e] = Dec(100)
       /\ routed.status = "ok"
       /\ routed.route = <<1, 2, 3, 4>>
       /\ routed.distance = Dec(400)
       /\ calculate_route_distance(base, routed.route).distance = Dec(300)

\* C4: for one crime spot, every edge incident to a node in the box (parallel
\* edges, either direction) is multiplied by (1 + severity) once per such
\* node, so an edge with both ends in the box ends at base * (1 + severity)^2.
C4_EveryIncidentEdge ==
    (last.op = "adjust" /\ Len(last.crime_locations) = 1) =>
        LET spot == last.crime_locations[1]
            nearby == NearbyNodes(last.before, spot[1], spot[2], last.radius)
        IN  \A e \in Edges(graph) :
                graph.length[e] =
                    MulTimes(last.before.length[e], spot[3],
                             Cardinality({n \in nearby : n \in {e[1], e[2]}}))

---------------------------------------------------------------------------
(* Claims about the graphs the request handlers work on (Spec)              *)

\* the crime spots a request can adjust with: the data set's spots as they are
\* (a1), or their positions with any severities the predictor can give
RequestSpots ==
    IF program = "a1" THEN {crime_spots}
    ELSE {[i \in DOMAIN crime_spots |-> <<crime_spots[i][1], crime_spots[i][2], sv[i]>>] :
            sv \in [DOMAIN crime_spots ->
                       {SEVERITY_MAPPING[c] : c \in DOMAIN SEVERITY_MAPPING}]}

\* every edge of `used` is as long as base length times the multipliers of `spots`
FromFreshCopy(used, spots, radius) ==
    \A e \in Edges(used) :
        used.length[e] = adjust_weights_for_crime(base, spots, radius).length[e]

\* C5: whatever requests have been served, the graph G refers to is the graph
\* that was loaded; the step that prepares the Safest graph changes neither G
\* nor the Optimized graph, and the step that prepares the Optimized graph
\* changes neither G nor the Safest graph.
C5_BaseNeverMutated ==
    /\ [](heap[G] = base)
    /\ [][/\ (req.pc = "safe" /\ req'.pc = "optimized") =>
               /\ heap'[G] = heap[G]
               /\ G_optimized # 0 => heap'[G_optimized] = heap[G_optimized]
          /\ (req.pc = "optimized" /\ req'.pc = "routes") =>
               /\ heap'[G] = heap[G]
               /\ heap'[req.safe_graph] = heap[req.safe_graph]]_vars

\* a request has lengthened an edge of its Safest graph, and G is as loaded
C5_Witness ==
    /\ req.pc = "optimized"
    /\ req.safe_graph # G
    /\ \E e \in Edges(heap[req.safe_graph]) :
           DLt(base.length[e], heap[req.safe_graph].length[e])
    /\ heap[G] = base

\* C6: when a request computes its routes, each edge of its Safest graph and
\* of its Optimized graph is as long as the loaded length times the
\* multipliers of this request's crime spots only; and a request that repeats
\* the trip of the request before it gets the same routes and distances.
C6_FreshCopyEachRequest ==
    /\ req.pc = "routes" =>
          \E spots \in RequestSpots :
              /\ FromFreshCopy(heap[req.safe_graph], spots, crime_radius)
              /\ FromFreshCopy(heap[req.optimized_graph], spots, crime_radius)
    /\ (/\ previous # None
        /\ previous.status = response.status
        /\ previous.trip = response.trip)
       => response.routes = previous.routes

---------------------------------------------------------------------------
(* Claims about the severity cache (SpecCache)                              *)

\* C7: a call of get_crime_severity_cached with the arguments of a call made
\* less than CRIME_CACHE_EXPIRY seconds earlier returns the severity stored
\* for its key and does not call the predictor.
C7_HitWithinExpiry ==
    (/\ call.op = "lookup"
     /\ call.asked_at >= 0
     /\ call.at - call.asked_at < CRIME_CACHE_EXPIRY)
    => /\ call.status = "ok"
       /\ ~call.predicted
       /\ call.stored # <<>>
       /\ call.severity = call.stored[2]

\* C8: a call of get_crime_severity_cached with the arguments of a call made
\* CRIME_CACHE_EXPIRY seconds or more earlier calls the predictor, stores the
\* new severity with the current time and returns it.
C8_RefreshAfterExpiry ==
    (/\ call.op = "lookup"
     /\ call.asked_at >= 0
     /\ call.at - call.asked_at >= CRIME_CACHE_EXPIRY)
    => /\ call.status = "ok"
       /\ call.predicted
       /\ call.severity = predict_crime_severity(call.prediction)
       /\ call.args \in DOMAIN CRIME_SEVERITY_CACHE
       /\ CRIME_SEVERITY_CACHE[call.args] = <<call.at, call.severity>>

\* C9: when a request looks up a crime spot that an earlier request looked up
\* less than CRIME_CACHE_EXPIRY seconds before, the lookup has the key of an
\* earlier lookup, returns a severity and does not call the predictor.
C9_RequestsShareKey ==
    (/\ call.op = "lookup"
     /\ call.from_request
     /\ call.request_at >= 0
     /\ call.request_at < call.at
     /\ call.at - call.request_at < CRIME_CACHE_EXPIRY)
    => /\ call.asked_at >= 0
       /\ call.status = "ok"
       /\ ~call.predicted

\* C10: a call of get_crime_severity_cached during which model.predict would
\* raise returns the severity of the lowest tier, 0.1, and leaves the cache as
\* it was.
C10_FallbackOnFailure ==
    (call.op = "lookup" /\ call.prediction = "raise")
    => /\ call.status = "ok"
       /\ call.severity = 1
       /\ CRIME_SEVERITY_CACHE = call.before

\* C11: while worker threads look crime spots up, every entry of
\* CRIME_SEVERITY_CACHE is a complete (timestamp, severity) pair stored by one
\* call, and when two workers have looked up the same key and both have come to
\* their end, the cache holds an entry for that key, the one of the worker that
\* finished last.
C11_LastWriteWins ==
    /\ \A k \in DOMAIN CRIME_SEVERITY_CACHE :
          /\ DOMAIN CRIME_SEVERITY_CACHE[k] = 1..2
          /\ CRIME_SEVERITY_CACHE[k][1] \in Nat
          /\ CRIME_SEVERITY_CACHE[k][2] \in {SEVERITY_MAPPING[c] : c \in DOMAIN SEVERITY_MAPPING}
    /\ \A i, j \in Futures :
          (/\ i # j
           /\ batch.crime_locations[i] = batch.crime_locations[j]
           /\ Unfinished = {}
           /\ batch.finished[Len(batch.finished)] = j)
          => LET key == <<batch.crime_locations[j][1], batch.crime_locations[j][2],
                          batch.date, batch.time, batch.day>>
             IN  /\ key \in DOMAIN CRIME_SEVERITY_CACHE
                 /\ CRIME_SEVERITY_CACHE[key] = <<batch.future[j].now, batch.future[j].severity>>

\* C12: when the deadline of the batch has passed with predictions still
\* running, the main thread does not wait for them: it is never held in the
\* executor's shutdown while a future is unfinished.
C12_AbandonedWithoutWaiting ==
    batch.pc = "shutdown" => Unfinished = {}

\* C13: the batch is never aborted, and when it returns every crime spot is in
\* the returned list: with its own severity when its lookup succeeded, with the
\* low fallback severity (0.1) when it failed.
C13_EverySpotReturned ==
    /\ batch.pc # "raised"
    /\ batch.pc = "returned" =>
          \A i \in Futures :
            \E n \in DOMAIN batch.dynamic_crime_spots :
              batch.dynamic_crime_spots[n] =
                <<batch.crime_locations[i][1], batch.crime_locations[i][2],
                  IF batch.future[i].status = "ok" THEN batch.future[i].severity ELSE 1>>

---------------------------------------------------------------------------
(* Claims about the request handlers when routes cannot be found (Spec)     *)

\* the graph each route variant is searched in by a.find_routes and
\* a1.generate_routes
VariantGraph == ("Fastest" :> G) @@ ("Safest" :> G_safe) @@ ("Optimized" :> G_optimized)

\* a request for known places has been answered by `programs`
Answered(programs) ==
    /\ program \in programs
    /\ req.pc = "idle"
    /\ response # None
    /\ response.trip[1] # NoPlace
    /\ response.trip[2] # NoPlace

\* the variants that have a path for the trip just answered
WithPath ==
    {n \in DOMAIN VariantGraph :
        get_astar_route(heap[VariantGraph[n]], response.trip[1], response.trip[2]).status
            = "ok"}

\* C14: when a.find_routes or a1.generate_routes has answered a request in
\* which some variant has no path, no error was raised and the result holds
\* exactly the variants that have a path (one entry when only one has).
C14_NoPathVariantOmitted ==
    (Answered({"a", "a1"}) /\ WithPath # DOMAIN VariantGraph)
    => /\ response.status = "map"
       /\ DOMAIN response.routes = WithPath

\* C15: when a1.generate_routes has answered a request in which none of the
\* three variants has a path, the answer is not a map without routes.
C15_ExplicitNoRoute ==
    (Answered({"a1"}) /\ WithPath = {})
    => ~(response.status = "map" /\ response.routes = EmptyMap)

\* C16: a request to app.generate_routes or calculate_routes_api whose places
\* are known never ends in an unhandled error, and its answer is either a
\* mapping with at least one route or something other than a mapping.
C16_MappingOrNoRoute ==
    Answered({"app", "rc"})
    => /\ response.status # "500"
       /\ response.status \in {"200", "map"} => response.routes # EmptyMap

\* C17: app.generate_routes returns every variant found within its time
\* limit: when the road graph has a path for the trip, the answer holds the
\* Fastest route.
C17_FoundVariantReturned ==
    (/\ Answered({"app"})
     /\ get_astar_route(heap[G], response.trip[1], response.trip[2]).status = "ok")
    => "Fastest" \in DOMAIN response.routes

---------------------------------------------------------------------------
(* Claims about the distances reported for the routes (SpecAdjust)          *)

\* the cost nx.astar_path minimises: the least length of the parallel edges
\* of every hop
RECURSIVE PathCost(_, _, _)
PathCost(g, route, i) ==
    IF i >= Len(route) THEN Dec(0)
    ELSE DAdd(MinWeight(g, route[i], route[i + 1]), PathCost(g, route, i + 1))

\* the Fastest route of the trip just routed: searched and measured in the
\* graph as loaded
Fastest ==
    CHOOSE m \in {Measured(base, r) : r \in {get_astar_route(base, routed.start, routed.end)}} :
        TRUE

\* C18: when a route is found in the graph as loaded (Fastest) and in the
\* graph with adjusted lengths (Safest), the distance reported for the Safest
\* route is at least the distance reported for the Fastest.
C18_SafestNotShorter ==
    (routed # None /\ routed.status = "ok" /\ Fastest.status = "ok")
    => DLeq(Fastest.distance, routed.distance)

\* C20: the distance calculate_route_distance reports for a route found by
\* get_astar_route is the sum of the lengths of the edges the search
\* traversed, the path cost it minimised.
C20_DistanceIsPathCost ==
    (routed # None /\ routed.status = "ok")
    => /\ DLeq(routed.distance, PathCost(graph, routed.route, 1))
       /\ DLeq(PathCost(graph, routed.route, 1), routed.distance)

\* the straight-line distance between two nodes in metres
StraightLine(g, u, v) ==
    DNorm(Isqrt(10 * Sep2(g.y[u], g.x[u], g.y[v], g.x[v])) * 111, 1)

\* every street of g is at least as long as the straight line between its ends
TrueLengths(g) ==
    \A e \in Edges(g) : DLeq(StraightLine(g, e[1], e[2]), g.length[e])

\* no path
NoWay == <<-1, 0>>

\* the cost of the cheapest path u -> v of at most `hops` edges, by
\* enumeration of the paths
RECURSIVE Cheapest(_, _, _, _)
Cheapest(g, u, v, hops) ==
    IF u = v THEN Dec(0)
    ELSE IF hops = 0 THEN NoWay
    ELSE LET via == {w \in Neighbors(g, u) : Cheapest(g, w, v, hops - 1) # NoWay}
             costs == {DAdd(MinWeight(g, u, w), Cheapest(g, w, v, hops - 1)) : w \in via}
         IN  IF costs = {} THEN NoWay
             ELSE CHOOSE c \in costs : \A d \in costs : DLeq(c, d)

\* C19: in every graph adjust_weights_for_crime makes of a base graph whose
\* streets are at least as long as the straight line between their ends, the
\* heuristic of get_astar_route is at most the cost of the cheapest path
\* between any two connected nodes, and the route the search returns has the
\* least cost of all paths from its first node to its last.
C19_HeuristicAdmissible ==
    TrueLengths(base)
    => /\ \A u, v \in graph.nodes :
            \E c \in {Cheapest(graph, u, v, Cardinality(graph.nodes))} :
                c # NoWay => DLeq(Heuristic(graph, u, v), c)
       /\ (routed # None /\ routed.status \in {"ok", "KeyError"})
          => \E c \in {Cheapest(graph, routed.route[1], routed.route[Len(routed.route)],
                                 Cardinality(graph.nodes))} :
                /\ DLeq(PathCost(graph, routed.route, 1), c)
                /\ DLeq(c, PathCost(graph, routed.route, 1))

\* a route has been searched in a graph whose streets are true to length and
\* whose lengths a crime spot has raised so that another way is now cheapest
C19_Witness ==
    /\ TrueLengths(base)
    /\ graph # base
    /\ routed # None
    /\ routed.status = "ok"
    /\ routed.route # Fastest.route

---------------------------------------------------------------------------
(* Claims about get_route_crime_details (SpecDetails)                       *)

\* the severity the predictor gives the row
RowSeverity(row) == predict_crime_severity(details.predictions[row])

\* the rows that count: dated, in the box of a sampled node, and recent
\* enough for their severity
Qualifying ==
    {row \in DOMAIN details.crime_data :
        LET crime == details.crime_data[row]
        IN  /\ crime.date # NaT
            /\ \E i \in DOMAIN details.sampled_route :
                  LET node == details.sampled_route[i]
                  IN  /\ Abs(crime.latitude - details.graph.y[node]) < details.radius
                      /\ Abs(crime.longitude - details.graph.x[node]) < details.radius
            /\ crime.date >= clock - TimeRange(RowSeverity(row))}

RECURSIVE SumSeverity(_)
SumSeverity(rows) ==
    IF rows = {} THEN 0
    ELSE LET row == CHOOSE r \in rows : TRUE
         IN  RowSeverity(row) + SumSeverity(rows \ {row})

\* C21: the total severity get_route_crime_details returns lies between 0 and
\* 100, and when the predictor answers for every record it is
\* min(100, sum of the severities of the qualifying records).
C21_TotalIsCappedSum ==
    details.pc = "returned"
    => /\ details.total_severity \in 0..SeverityCeiling
       /\ (\A row \in DOMAIN details.predictions : details.predictions[row] # "raise")
          => details.total_severity = Min(SeverityCeiling, SumSeverity(Qualifying))

\* C22: get_route_crime_details samples at most 50 nodes of the route.
C22_AtMostFiftySamples ==
    details.pc = "returned" => Len(details.sampled_route) <= 50

\* how often the row was added to total_severity
Contributions(row) ==
    Cardinality({i \in DOMAIN details.added : details.added[i][2] = row})

---------------------------------------------------------------------------
(* Claims about remove_crime_spots (SpecRemove)                             *)

\* the nodes of the graph before the call that lie in the box of a spot
\* whose severity is above max_severity
InBoxOfSevereSpot ==
    {n \in last.before.nodes :
        \E i \in DOMAIN last.crime_locations :
            /\ last.crime_locations[i][3] > last.max_severity
            /\ Abs(last.before.y[n] - last.crime_locations[i][1]) < last.radius
            /\ Abs(last.before.x[n] - last.crime_locations[i][2]) < last.radius}

\* C23: remove_crime_spots removes exactly the nodes in the box of a spot
\* whose severity is strictly above max_severity, and the edges at those
\* nodes; every other node and edge stays, with its place and its length.
C23_RemovesExactlySevereBoxes ==
    last.op = "remove"
    => /\ graph.nodes = last.before.nodes \ InBoxOfSevereSpot
       /\ DOMAIN graph.length =
            {e \in DOMAIN last.before.length :
                e[1] \notin InBoxOfSevereSpot /\ e[2] \notin InBoxOfSevereSpot}
       /\ \A e \in DOMAIN graph.length : graph.length[e] = last.before.length[e]
       /\ \A n \in graph.nodes :
            graph.y[n] = last.before.y[n] /\ graph.x[n] = last.before.x[n]

\* a call that removed a node for one spot and kept a node that lies in the
\* box of a spot whose severity equals max_severity
C23_Witness ==
    /\ last.op = "remove"
    /\ graph.nodes # last.before.nodes
    /\ \E n \in graph.nodes, i \in DOMAIN last.crime_locations :
          /\ last.crime_locations[i][3] = last.max_severity
          /\ n \in NearbyNodes(last.before, last.crime_locations[i][1],
                                last.crime_locations[i][2], last.radius)

\* g is a subgraph of h
Subgraph(g, h) ==
    /\ g.nodes \subseteq h.nodes
    /\ DOMAIN g.length \subseteq DOMAIN h.length

\* C30: for one graph, one list of spots and one radius, the graph left by
\* remove_crime_spots with a threshold m1 is a subgraph of the graph left
\* with any threshold m2 >= m1 (so with 0.1 and 0.5, and with 0.3 and 0.8),
\* and removing a second time with the same arguments changes nothing.
C30_MonotoneAndIdempotent ==
    last.op = "remove"
    => /\ \A m1, m2 \in 0..10 :
            m1 <= m2 =>
              Subgraph(remove_crime_spots(last.before, last.crime_locations, last.radius, m1),
                       remove_crime_spots(last.before, last.crime_locations, last.radius, m2))
       /\ remove_crime_spots(graph, last.crime_locations, last.radius, last.max_severity)
            = graph

\* a call with the Safest threshold that removed a node the Optimized
\* threshold leaves in place
C30_Witness ==
    /\ last.op = "remove"
    /\ last.max_severity = r_SafeMaxSeverity
    /\ graph.nodes # remove_crime_spots(last.before, last.crime_locations, last.radius,
                                        r_OptimizedMaxSeverity).nodes

---------------------------------------------------------------------------
(* Claim about the box around a crime location (SpecNear)                   *)

\* both coordinates differ by less than the radius
StrictlyNear(y, x, lat, lon, radius) == Abs(y - lat) < radius /\ Abs(x - lon) < radius

\* C26: a node or a crime record is treated as near a point exactly when its
\* latitude and its longitude both differ from the point's by strictly less
\* than the radius.  adjust_weights_for_crime lengthens the edges that leave
\* exactly those nodes, remove_crime_spots removes exactly those nodes for a
\* spot above the threshold, and get_route_crime_details looks up the
\* severity of a dated record exactly when it is that near a sampled node.
C26_StrictBox ==
    /\ last.op = "adjust" =>
          \A e \in DOMAIN last.before.length :
            graph.length[e] # last.before.length[e]
            <=> StrictlyNear(last.before.y[e[1]], last.before.x[e[1]],
                             last.crime_locations[1][1], last.crime_locations[1][2],
                             last.radius)
    /\ last.op = "remove" =>
          \A n \in last.before.nodes :
            n \notin graph.nodes
            <=> /\ last.crime_locations[1][3] > last.max_severity
                /\ StrictlyNear(last.before.y[n], last.before.x[n],
                                last.crime_locations[1][1], last.crime_locations[1][2],
                                last.radius)
    /\ details.pc = "returned" =>
          (details.status = "AttributeError"
           <=> \E i \in DOMAIN details.sampled_route :
                 StrictlyNear(details.graph.y[details.sampled_route[i]],
                              details.graph.x[details.sampled_route[i]],
                              details.crime_data[1].latitude,
                              details.crime_data[1].longitude, details.radius))

\* a node whose longitude differs from the crime location's by exactly the
\* radius, its latitude by less
OnTheEdge(g, lat, lon, radius) ==
    {n \in g.nodes : Abs(g.x[n] - lon) = radius /\ Abs(g.y[n] - lat) < radius}

\* adjust_weights_for_crime has been called for a crime location with one
\* node inside its box and another, with edges of its own, on the edge of it
C26_Witness ==
    /\ last.op = "adjust"
    /\ graph # last.before
    /\ \E n \in OnTheEdge(last.before, last.crime_locations[1][1],
                            last.crime_locations[1][2], last.radius) :
          Neighbors(last.before, n) # {}

---------------------------------------------------------------------------
(* Claim about the routes a1.update_map displays (Spec)                     *)

\* C24: whenever update_map renders a page for a user whose most recent
\* generate_routes returned a map, the routes and the end points on the page
\* are those of that generate_routes, whatever requests of the other user
\* came in between.
C24_RequestLocalRoutes ==
    [][(/\ shown' # shown
        /\ latest[shown'.user] # None)
       => shown'.page = Page(latest[shown'.user].routes, shown'.route_type,
                             latest[shown'.user].start_place,
                             latest[shown'.user].end_place)]_vars

---------------------------------------------------------------------------
(* Claim about a weight adjustment that raises (Spec)                       *)

\* C25: when the weight adjustment of a request has raised an error, the
\* answer holds no route under the name Safest or Optimized: no route found
\* in a graph that was not adjusted is returned under these names.
C25_FailedVariantOmitted ==
    [][(/\ program = "rc"
        /\ req.pc = "routes"
        /\ req'.pc = "idle"
        /\ TimeTime(req.time, clock).raised)
       => /\ "Safest" \notin DOMAIN response'.routes
          /\ "Optimized" \notin DOMAIN response'.routes]_vars

---------------------------------------------------------------------------
(* Claim about the time limits of app.generate_routes (Spec)                *)

\* C27: no time passes while app.generate_routes serves a request, so every
\* variant stays within its own time limit and within the overall deadline;
\* then no variant is skipped for time: when the road graph has a path for
\* the trip, the answer holds the Safest and the Optimized route.
C27_IndependentSubDeadlines ==
    (/\ Answered({"app"})
     /\ get_astar_route(base, response.trip[1], response.trip[2]).status = "ok")
    => {"Safest", "Optimized"} \subseteq DOMAIN response.routes

=============================================================================
